---- MODULE Spec2Model ----
(***************************************************************************)
(* Clarke & Wright savings heuristic of Project LogiSwift.                 *)
(*                                                                         *)
(* Two implementations of the merge procedure are modelled:                *)
(*   "final"    final_baseline_solver.py, get_baseline_solution (the merge *)
(*              code of run_project_2.py, solve_with_clarke_wright, is the *)
(*              same text with another capacity constant);                 *)
(*   "baseline" baseline_solver.py, the module script.                     *)
(* A behaviour is one run of one implementation on one input (time matrix, *)
(* number of orders, vehicle capacity) that Init chooses.                  *)
(*                                                                         *)
(* Python lists are objects: the dictionary `routes` maps a customer to a  *)
(* reference, `heap` maps a reference to the list's content, so that       *)
(* list.reverse() (in place) and the deduplication by id() mean what they  *)
(* mean in the source.  Reference 0 is None.                               *)
(*                                                                         *)
(* last_case, merges and saved are history variables: the merge case      *)
(* (1..4, 0 for a skip) of the candidate processed last, the number of     *)
(* accepted merges, and the sum of the values of the accepted candidates.  *)
(***************************************************************************)
EXTENDS Integers, Sequences, FiniteSets, TLC

VARIABLES impl, NUM_ORDERS, VEHICLE_CAPACITY, time_matrix,
          pc, savings, k, routes, heap, final_routes, total_time, reports,
          last_case, merges, saved

vars == <<impl, NUM_ORDERS, VEHICLE_CAPACITY, time_matrix,
          pc, savings, k, routes, heap, final_routes, total_time, reports,
          last_case, merges, saved>>

inputs == <<impl, NUM_ORDERS, VEHICLE_CAPACITY, time_matrix>>

(***************************************************************************)
(* Bounds of the input space.                                              *)
(***************************************************************************)
\* largest number of orders (customers 1..NUM_ORDERS)
MaxOrders == 4
\* largest vehicle capacity
MaxCapacity == 5
\* largest number of matrix entries (pairs/legs) that differ from the plain matrix
MaxEdits == 2

(***************************************************************************)
(* Program constants.                                                      *)
(***************************************************************************)
depot_idx == 0
penalty_value == 999999
None == 0

(***************************************************************************)
(* Python list helpers.                                                    *)
(***************************************************************************)
\* route[n] with Python's 0-based and negative indices
PyIndex(route, n) == IF n >= 0 THEN route[n + 1] ELSE route[Len(route) + n + 1]

\* route[:-1]
DropLast(route) == SubSeq(route, 1, Len(route) - 1)

\* route[1:]
DropFirst(route) == SubSeq(route, 2, Len(route))

\* mutant of Reversed: the customers are rotated by one place, not reversed
Rotated(route) ==
  [x \in 1..Len(route) |->
     IF x = 1 \/ x = Len(route) THEN route[x]
     ELSE IF x = Len(route) - 1 THEN route[2]
     ELSE route[x + 1]]

\* the content of a list after list.reverse()
Reversed(route) == [x \in 1..Len(route) |-> route[Len(route) + 1 - x]]

\* x in route
InList(x, route) == \E p \in 1..Len(route) : route[p] = x

(***************************************************************************)
(* Input matrices: the plain matrix (every depot leg 10, every customer    *)
(* link 19) with at most MaxEdits edited targets.  A target is a customer  *)
(* pair <<i, j>>, i < j, or a depot leg <<0, b>>.  An edited pair costs    *)
(* one of LinkCosts in both directions; an edited leg costs the penalty    *)
(* value outbound (what the cleaning step writes for a duration OSRM could *)
(* not compute), which makes the matrix asymmetric.                        *)
(***************************************************************************)
LinkCosts == <<5, penalty_value>>

Targets(n) == {p \in (0..n) \X (1..n) : p[1] < p[2]}

EditSets(n) == {T \in SUBSET Targets(n) : Cardinality(T) <= MaxEdits}

EditedPairs(T) == {p \in T : p[1] # depot_idx}

Matrix(n, T, e) ==
  [a \in 0..n |-> [b \in 0..n |->
     IF a = b THEN 0
     ELSE IF a = depot_idx THEN (IF <<0, b>> \in T THEN penalty_value ELSE 10)
     ELSE IF b = depot_idx THEN 10
     ELSE LET p == IF a < b THEN <<a, b>> ELSE <<b, a>>
          IN  IF p \in T THEN LinkCosts[e[p]] ELSE 19]]

Symmetric(m, n) == \A a \in 0..n : \A b \in 0..n : m[a][b] = m[b][a]

(***************************************************************************)
(* Savings computation.                                                    *)
(***************************************************************************)
\* mutant of saving_value: the second depot leg is taken for i instead of j
saving_value_same_leg(m, i, j) == m[depot_idx][i] + m[depot_idx][i] - m[i][j]

\* time_matrix[depot_idx, i] + time_matrix[depot_idx, j] - time_matrix[i, j]
saving_value(m, i, j) == m[depot_idx][i] + m[depot_idx][j] - m[i][j]

\* for j in range(i + 1, NUM_ORDERS + 1): one record per j
RowSavings(m, i, n) == [x \in 1..(n - i) |-> <<saving_value(m, i, i + x), i, i + x>>]

\* for i in range(1, NUM_ORDERS + 1): the rows one after the other
RECURSIVE AllSavings(_, _, _)
AllSavings(m, i, n) ==
  IF i > n THEN <<>> ELSE RowSavings(m, i, n) \o AllSavings(m, i + 1, n)

\* mutant of KeepSaving: the filter is left out
KeepEverySaving(rec) == TRUE

\* if saving_value > 0: savings.append(...)
KeepSaving(rec) == rec[1] > 0

\* mutant of InsertByValue: reverse=True is left out (ascending, stable)
RECURSIVE InsertAscending(_, _)
InsertAscending(rec, sorted) ==
  IF sorted = <<>> THEN <<rec>>
  ELSE IF Head(sorted)[1] <= rec[1]
    THEN <<Head(sorted)>> \o InsertAscending(rec, Tail(sorted))
    ELSE <<rec>> \o sorted

\* mutant of InsertByValue: sort ascending, then list.reverse(): descending,
\* but records of equal value end up in the opposite order
RECURSIVE InsertBeforeTies(_, _)
InsertBeforeTies(rec, sorted) ==
  IF sorted = <<>> THEN <<rec>>
  ELSE IF Head(sorted)[1] > rec[1]
    THEN <<Head(sorted)>> \o InsertBeforeTies(rec, Tail(sorted))
    ELSE <<rec>> \o sorted

\* list.sort(key=lambda x: x[0], reverse=True): a stable sort, so records of
\* equal value keep the order in which they were appended
RECURSIVE InsertByValue(_, _)
InsertByValue(rec, sorted) ==
  IF sorted = <<>> THEN <<rec>>
  ELSE IF Head(sorted)[1] >= rec[1]
    THEN <<Head(sorted)>> \o InsertByValue(rec, Tail(sorted))
    ELSE <<rec>> \o sorted

RECURSIVE SortInto(_, _)
SortInto(s, acc) ==
  IF s = <<>> THEN acc ELSE SortInto(Tail(s), InsertByValue(Head(s), acc))

SortByValueReverse(s) == SortInto(s, <<>>)

savings_final(m, n) == SortByValueReverse(SelectSeq(AllSavings(m, 1, n), KeepSaving))

savings_baseline(m, n) == SortByValueReverse(AllSavings(m, 1, n))

\* routes = {i: [depot_idx, i, depot_idx] for i in range(1, NUM_ORDERS + 1)}:
\* customer i refers to a fresh list, stored at reference i
InitialHeap(n) == [i \in 1..n |-> <<depot_idx, i, depot_idx>>]
InitialRoutes(n) == [i \in 1..n |-> i]

(***************************************************************************)
(* Route lookup.                                                           *)
(***************************************************************************)
\* all_routes.get(customer_idx)
find_route_final(customer_idx, all_routes) ==
  IF customer_idx \in DOMAIN all_routes THEN all_routes[customer_idx] ELSE None

\* for route_list in all_routes.values(): the `return None` sits inside the
\* loop body, so only the first value (that of key 1) is ever looked at
find_route_baseline(customer_idx, all_routes, h) ==
  IF DOMAIN all_routes = {} THEN None
  ELSE IF InList(customer_idx, h[all_routes[1]]) THEN all_routes[1]
  ELSE None

(***************************************************************************)
(* The merge of one candidate.                                             *)
(***************************************************************************)
\* mutant of CapacityOk: each load is compared with the capacity on its own
EachLoadOk(load_i, load_j, capacity) == load_i <= capacity /\ load_j <= capacity

\* mutant of CapacityOk: a capacity below one is read as "no limit"
UnlimitedBelowOne(load_i, load_j, capacity) ==
  capacity < 1 \/ load_i + load_j <= capacity

\* load_i + load_j <= VEHICLE_CAPACITY
CapacityOk(load_i, load_j, capacity) == load_i + load_j <= capacity

\* mutant of Splice: the two slices are left out
SpliceWhole(route_i, route_j) == route_i \o route_j

\* route_i[:-1] + route_j[1:]
Splice(route_i, route_j) == DropLast(route_i) \o DropFirst(route_j)

\* mutant of merge_cases_final: the fourth case (i first, j last) is missing
merge_cases_three(h, ri, rj, i, j) ==
  LET route_i == h[ri]
      route_j == h[rj]
  IN  IF PyIndex(route_i, -2) = i /\ PyIndex(route_j, 1) = j
        THEN [heap |-> h, new_route |-> Splice(route_i, route_j), case |-> 1]
      ELSE IF PyIndex(route_i, 1) = i /\ PyIndex(route_j, 1) = j
        THEN LET h1 == [h EXCEPT ![ri] = Reversed(route_i)]
             IN  [heap |-> h1, new_route |-> Splice(h1[ri], h1[rj]), case |-> 2]
      ELSE IF PyIndex(route_i, -2) = i /\ PyIndex(route_j, -2) = j
        THEN LET h1 == [h EXCEPT ![rj] = Reversed(route_j)]
             IN  [heap |-> h1, new_route |-> Splice(h1[ri], h1[rj]), case |-> 3]
      ELSE [heap |-> h, new_route |-> <<>>, case |-> 0]

\* The four cases of final_baseline_solver.py.  The result is the heap after
\* the in-place reversal (if any) and new_route (<<>> for None).
merge_cases_final(h, ri, rj, i, j) ==
  LET route_i == h[ri]
      route_j == h[rj]
  IN  IF PyIndex(route_i, -2) = i /\ PyIndex(route_j, 1) = j
        THEN [heap |-> h, new_route |-> Splice(route_i, route_j), case |-> 1]
      ELSE IF PyIndex(route_i, 1) = i /\ PyIndex(route_j, 1) = j
        THEN LET h1 == [h EXCEPT ![ri] = Reversed(route_i)]
             IN  [heap |-> h1, new_route |-> Splice(h1[ri], h1[rj]), case |-> 2]
      ELSE IF PyIndex(route_i, -2) = i /\ PyIndex(route_j, -2) = j
        THEN LET h1 == [h EXCEPT ![rj] = Reversed(route_j)]
             IN  [heap |-> h1, new_route |-> Splice(h1[ri], h1[rj]), case |-> 3]
      ELSE IF PyIndex(route_i, 1) = i /\ PyIndex(route_j, -2) = j
        THEN [heap |-> h, new_route |-> Splice(route_j, route_i), case |-> 4]
      ELSE [heap |-> h, new_route |-> <<>>, case |-> 0]

\* The four cases of baseline_solver.py: case 1 tests route_i[2], case 3
\* splices route_j[:-1] + route_i[1:] after reversing route_j.
merge_cases_baseline(h, ri, rj, i, j) ==
  LET route_i == h[ri]
      route_j == h[rj]
  IN  IF PyIndex(route_i, 2) = i /\ PyIndex(route_j, 1) = j
        THEN [heap |-> h, new_route |-> Splice(route_i, route_j), case |-> 1]
      ELSE IF PyIndex(route_i, 1) = i /\ PyIndex(route_j, 1) = j
        THEN LET h1 == [h EXCEPT ![ri] = Reversed(route_i)]
             IN  [heap |-> h1, new_route |-> Splice(h1[ri], h1[rj]), case |-> 2]
      ELSE IF PyIndex(route_i, -2) = i /\ PyIndex(route_j, -2) = j
        THEN LET h1 == [h EXCEPT ![rj] = Reversed(route_j)]
             IN  [heap |-> h1, new_route |-> Splice(h1[rj], h1[ri]), case |-> 3]
      ELSE IF PyIndex(route_i, 1) = i /\ PyIndex(route_j, -2) = j
        THEN [heap |-> h, new_route |-> Splice(route_j, route_i), case |-> 4]
      ELSE [heap |-> h, new_route |-> <<>>, case |-> 0]

\* mutant of assign_final: only the two end customers of new_route are updated
assign_endpoints_only(all_routes, new_route, ref) ==
  [c \in DOMAIN all_routes |->
     IF c \in {new_route[2], new_route[Len(new_route) - 1]} THEN ref ELSE all_routes[c]]

\* mutant of assign_final: the slice starts one place late (new_route[2:-1])
assign_without_first(all_routes, new_route, ref) ==
  [c \in DOMAIN all_routes |->
     IF \E p \in 3..(Len(new_route) - 1) : new_route[p] = c THEN ref ELSE all_routes[c]]

\* for cust_idx in new_route[1:-1]: routes[cust_idx] = new_route
assign_final(all_routes, new_route, ref) ==
  [c \in DOMAIN all_routes |->
     IF \E p \in 2..(Len(new_route) - 1) : new_route[p] = c THEN ref ELSE all_routes[c]]

\* for customer in new_route: if customer != depot_idx: routes[customer] = new_route
assign_baseline(all_routes, new_route, ref) ==
  [c \in DOMAIN all_routes |->
     IF c # depot_idx /\ InList(c, new_route) THEN ref ELSE all_routes[c]]

\* mutant of loop_body_final: the four cases (and their in-place reversal) run
\* before the capacity test, which then only decides whether new_route is kept
loop_body_cases_first(h, all_routes, capacity, cand) ==
  LET i == cand[2]
      j == cand[3]
      ri == find_route_final(i, all_routes)
      rj == find_route_final(j, all_routes)
      same == [heap |-> h, routes |-> all_routes, case |-> 0]
  IN  IF ri # None /\ rj # None /\ ri # rj
        THEN LET m == merge_cases_final(h, ri, rj, i, j)
             IN  IF m.new_route # <<>>
                      /\ CapacityOk(Len(h[ri]) - 2, Len(h[rj]) - 2, capacity)
                   THEN [heap |-> Append(m.heap, m.new_route),
                         routes |-> assign_final(all_routes, m.new_route,
                                                 Len(m.heap) + 1),
                         case |-> m.case]
                   ELSE [heap |-> m.heap, routes |-> all_routes, case |-> 0]
        ELSE same

\* One iteration of `for saving, i, j in savings` of final_baseline_solver.py
\* (without the report): the heap and the dictionary afterwards.
loop_body_final(h, all_routes, capacity, cand) ==
  LET i == cand[2]
      j == cand[3]
      ri == find_route_final(i, all_routes)
      rj == find_route_final(j, all_routes)
      same == [heap |-> h, routes |-> all_routes, case |-> 0]
  IN  IF ri # None /\ rj # None /\ ri # rj
        THEN IF CapacityOk(Len(h[ri]) - 2, Len(h[rj]) - 2, capacity)
               THEN LET m == merge_cases_final(h, ri, rj, i, j)
                    IN  IF m.new_route # <<>>
                          THEN [heap |-> Append(m.heap, m.new_route),
                                routes |-> assign_final(all_routes, m.new_route,
                                                        Len(m.heap) + 1),
                                case |-> m.case]
                          ELSE [heap |-> m.heap, routes |-> all_routes, case |-> 0]
               ELSE same
        ELSE same

\* The merge part of one iteration of baseline_solver.py.
loop_body_baseline(h, all_routes, capacity, cand) ==
  LET i == cand[2]
      j == cand[3]
      ri == find_route_baseline(i, all_routes, h)
      rj == find_route_baseline(j, all_routes, h)
      same == [heap |-> h, routes |-> all_routes, case |-> 0]
  IN  IF ri # None /\ rj # None /\ ri # rj
        THEN IF CapacityOk(Len(h[ri]) - 2, Len(h[rj]) - 2, capacity)
               THEN LET m == merge_cases_baseline(h, ri, rj, i, j)
                    IN  IF m.new_route # <<>>
                          THEN [heap |-> Append(m.heap, m.new_route),
                                routes |-> assign_baseline(all_routes, m.new_route,
                                                           Len(m.heap) + 1),
                                case |-> m.case]
                          ELSE [heap |-> m.heap, routes |-> all_routes, case |-> 0]
               ELSE same
        ELSE same

(***************************************************************************)
(* The whole merge loop as a function of the input.                        *)
(***************************************************************************)
\* for saving, i, j in savings: the loop of final_baseline_solver.py from
\* candidate x on
RECURSIVE merge_loop_final(_, _, _, _, _)
merge_loop_final(h, all_routes, capacity, sv, x) ==
  IF x > Len(sv) THEN [heap |-> h, routes |-> all_routes]
  ELSE LET r == loop_body_final(h, all_routes, capacity, sv[x])
       IN  merge_loop_final(r.heap, r.routes, capacity, sv, x + 1)

\* the loop of baseline_solver.py from candidate x on
RECURSIVE merge_loop_baseline(_, _, _, _, _)
merge_loop_baseline(h, all_routes, capacity, sv, x) ==
  IF x > Len(sv) THEN [heap |-> h, routes |-> all_routes]
  ELSE LET r == loop_body_baseline(h, all_routes, capacity, sv[x])
       IN  merge_loop_baseline(r.heap, r.routes, capacity, sv, x + 1)

(***************************************************************************)
(* The report.                                                             *)
(***************************************************************************)
\* the keys of {id(route): route for route in routes.values()}, in insertion
\* order: each reference once, in the order of the first customer holding it
\* mutant of DistinctRefs: every dictionary value is kept, repeated or not
AllRefs(refs, seen) == refs

RECURSIVE DistinctRefs(_, _)
DistinctRefs(refs, seen) ==
  IF refs = <<>> THEN <<>>
  ELSE IF Head(refs) \in seen THEN DistinctRefs(Tail(refs), seen)
  ELSE <<Head(refs)>> \o DistinctRefs(Tail(refs), seen \cup {Head(refs)})

\* list({id(route): route for route in routes.values()}.values())
dedup_routes(all_routes, h) ==
  LET refs == DistinctRefs(all_routes, {})
  IN  [x \in 1..Len(refs) |-> h[refs[x]]]

\* mutant of route_time: the last arc, back to the depot, is left out
RECURSIVE route_time_one_way(_, _)
route_time_one_way(m, route) ==
  IF Len(route) < 3 THEN 0
  ELSE m[route[1]][route[2]] + route_time_one_way(m, Tail(route))

\* sum(time_matrix[start, end] for start, end in zip(route, route[1:]))
RECURSIVE route_time(_, _)
route_time(m, route) ==
  IF Len(route) < 2 THEN 0
  ELSE m[route[1]][route[2]] + route_time(m, Tail(route))

\* total_time += route_time, over final_routes
RECURSIVE sum_route_times(_, _)
sum_route_times(m, rs) ==
  IF rs = <<>> THEN 0 ELSE route_time(m, Head(rs)) + sum_route_times(m, Tail(rs))

\* the distinct routes final_baseline_solver.py ends with on (m, n, capacity)
routes_of_final(m, n, capacity) ==
  LET r == merge_loop_final(InitialHeap(n), InitialRoutes(n), capacity,
                            savings_final(m, n), 1)
  IN  dedup_routes(r.routes, r.heap)

\* the distinct routes baseline_solver.py ends with on (m, n, capacity)
routes_of_baseline(m, n, capacity) ==
  LET r == merge_loop_baseline(InitialHeap(n), InitialRoutes(n), capacity,
                               savings_baseline(m, n), 1)
  IN  dedup_routes(r.routes, r.heap)

(***************************************************************************)
(* The state machine.                                                      *)
(***************************************************************************)
Init ==
  /\ impl \in {"final", "baseline"}
  /\ NUM_ORDERS \in 1..MaxOrders
  /\ VEHICLE_CAPACITY \in (-1)..MaxCapacity
  /\ \E T \in EditSets(NUM_ORDERS) : \E e \in [EditedPairs(T) -> 1..Len(LinkCosts)] :
       time_matrix = Matrix(NUM_ORDERS, T, e)
  /\ pc = "savings"
  /\ savings = <<>>
  /\ k = 0
  /\ routes = <<>>
  /\ heap = <<>>
  /\ final_routes = <<>>
  /\ total_time = 0
  /\ reports = 0
  /\ last_case = 0
  /\ merges = 0
  /\ saved = 0

\* final_baseline_solver.py, lines 68-77
ComputeSavingsFinal ==
  /\ impl = "final" /\ pc = "savings"
  /\ savings' = savings_final(time_matrix, NUM_ORDERS)
  /\ routes' = InitialRoutes(NUM_ORDERS)
  /\ heap' = InitialHeap(NUM_ORDERS)
  /\ k' = 1
  /\ pc' = "merge"
  /\ UNCHANGED <<inputs, final_routes, total_time, reports, last_case, merges, saved>>

\* final_baseline_solver.py, lines 82-106: one candidate
ProcessCandidateFinal ==
  /\ impl = "final" /\ pc = "merge" /\ k <= Len(savings)
  /\ LET r == loop_body_final(heap, routes, VEHICLE_CAPACITY, savings[k])
     IN  /\ heap' = r.heap
         /\ routes' = r.routes
         /\ last_case' = r.case
         /\ merges' = IF r.case # 0 THEN merges + 1 ELSE merges
         /\ saved' = IF r.case # 0 THEN saved + savings[k][1] ELSE saved
  /\ k' = k + 1
  /\ UNCHANGED <<inputs, pc, savings, final_routes, total_time, reports>>

\* final_baseline_solver.py, lines 109-119: after the loop
ReportFinal ==
  /\ impl = "final" /\ pc = "merge" /\ k > Len(savings)
  /\ final_routes' = dedup_routes(routes, heap)
  /\ total_time' = sum_route_times(time_matrix, dedup_routes(routes, heap))
  /\ reports' = reports + 1
  /\ pc' = "done"
  /\ UNCHANGED <<inputs, savings, k, routes, heap, last_case, merges, saved>>

\* baseline_solver.py, lines 48-60
ComputeSavingsBaseline ==
  /\ impl = "baseline" /\ pc = "savings"
  /\ savings' = savings_baseline(time_matrix, NUM_ORDERS)
  /\ routes' = InitialRoutes(NUM_ORDERS)
  /\ heap' = InitialHeap(NUM_ORDERS)
  /\ k' = 1
  /\ pc' = "merge"
  /\ UNCHANGED <<inputs, final_routes, total_time, reports, last_case, merges, saved>>

\* baseline_solver.py, lines 73-137: one candidate; the report is part of the
\* loop body (lines 122-137 are indented under the for)
ProcessCandidateBaseline ==
  /\ impl = "baseline" /\ pc = "merge" /\ k <= Len(savings)
  /\ LET r == loop_body_baseline(heap, routes, VEHICLE_CAPACITY, savings[k])
     IN  /\ heap' = r.heap
         /\ routes' = r.routes
         /\ final_routes' = dedup_routes(r.routes, r.heap)
         /\ total_time' = sum_route_times(time_matrix, dedup_routes(r.routes, r.heap))
         /\ last_case' = r.case
         /\ merges' = IF r.case # 0 THEN merges + 1 ELSE merges
         /\ saved' = IF r.case # 0 THEN saved + savings[k][1] ELSE saved
  /\ reports' = reports + 1
  /\ k' = k + 1
  /\ UNCHANGED <<inputs, pc, savings>>

\* baseline_solver.py: the for loop is exhausted, the script ends
FinishBaseline ==
  /\ impl = "baseline" /\ pc = "merge" /\ k > Len(savings)
  /\ pc' = "done"
  /\ UNCHANGED <<inputs, savings, k, routes, heap, final_routes, total_time, reports,
               last_case, merges, saved>>

Next ==
  \/ ComputeSavingsFinal
  \/ ProcessCandidateFinal
  \/ ReportFinal
  \/ ComputeSavingsBaseline
  \/ ProcessCandidateBaseline
  \/ FinishBaseline

Spec == Init /\ [][Next]_vars

(***************************************************************************)
(* The case analysis on its own.  The four cases are a function of the two *)
(* lists route_i, route_j and the customers i, j.  SpecCases enters them   *)
(* the way the loop body does once the tests of lines 86 and 90 have       *)
(* passed: two different route objects that hold the customers in some     *)
(* order, customer i on the first, customer j on the second, i < j, a      *)
(* capacity that admits both loads, and the N - 2 merges behind them that  *)
(* two live routes stand for, with what they saved on the plain matrix.    *)
(***************************************************************************)
\* the orders in which the customers 1..n can stand on the routes
CustomerOrders(n) ==
  {s \in [1..n -> 1..n] : \A a \in 1..n : \A b \in 1..n : a # b => s[a] # s[b]}

\* the list [0, s[from], ..., s[to], 0]
RouteOf(s, from, to) == <<depot_idx>> \o SubSeq(s, from, to) \o <<depot_idx>>

InitCases ==
  /\ impl \in {"final", "baseline"}
  /\ NUM_ORDERS \in 2..MaxOrders
  /\ VEHICLE_CAPACITY = NUM_ORDERS
  /\ time_matrix = Matrix(NUM_ORDERS, {}, <<>>)
  /\ \E s \in CustomerOrders(NUM_ORDERS) : \E p \in 1..(NUM_ORDERS - 1) :
       \E i \in {s[x] : x \in 1..p} : \E j \in {s[x] : x \in (p + 1)..NUM_ORDERS} :
         /\ i < j
         /\ heap = <<RouteOf(s, 1, p), RouteOf(s, p + 1, NUM_ORDERS)>>
         /\ routes = [c \in 1..NUM_ORDERS |->
                        IF InList(c, RouteOf(s, 1, p)) THEN 1 ELSE 2]
         /\ savings = << <<saving_value(time_matrix, i, j), i, j>> >>
  /\ pc = "merge"
  /\ k = 1
  /\ final_routes = <<>>
  /\ total_time = 0
  /\ reports = 0
  /\ last_case = 0
  /\ merges = NUM_ORDERS - 2
  /\ saved = sum_route_times(time_matrix, InitialHeap(NUM_ORDERS))
               - sum_route_times(time_matrix, heap)

\* final_baseline_solver.py, lines 91-106: the cases and the dictionary update
ApplyCasesFinal ==
  /\ impl = "final" /\ pc = "merge" /\ k <= Len(savings)
  /\ LET i == savings[k][2]
         j == savings[k][3]
         m == merge_cases_final(heap, routes[i], routes[j], i, j)
     IN  /\ heap' = IF m.new_route # <<>> THEN Append(m.heap, m.new_route) ELSE m.heap
         /\ routes' = IF m.new_route # <<>>
                        THEN assign_final(routes, m.new_route, Len(m.heap) + 1)
                        ELSE routes
         /\ last_case' = m.case
         /\ merges' = IF m.new_route # <<>> THEN merges + 1 ELSE merges
         /\ saved' = IF m.new_route # <<>> THEN saved + savings[k][1] ELSE saved
  /\ k' = k + 1
  /\ UNCHANGED <<inputs, pc, savings, final_routes, total_time, reports>>

\* baseline_solver.py, lines 88-120: the cases and the dictionary update
ApplyCasesBaseline ==
  /\ impl = "baseline" /\ pc = "merge" /\ k <= Len(savings)
  /\ LET i == savings[k][2]
         j == savings[k][3]
         m == merge_cases_baseline(heap, routes[i], routes[j], i, j)
     IN  /\ heap' = IF m.new_route # <<>> THEN Append(m.heap, m.new_route) ELSE m.heap
         /\ routes' = IF m.new_route # <<>>
                        THEN assign_baseline(routes, m.new_route, Len(m.heap) + 1)
                        ELSE routes
         /\ last_case' = m.case
         /\ merges' = IF m.new_route # <<>> THEN merges + 1 ELSE merges
         /\ saved' = IF m.new_route # <<>> THEN saved + savings[k][1] ELSE saved
  /\ k' = k + 1
  /\ UNCHANGED <<inputs, pc, savings, final_routes, total_time, reports>>

NextCases ==
  \/ ApplyCasesFinal
  \/ ApplyCasesBaseline

SpecCases == InitCases /\ [][NextCases]_vars

(***************************************************************************)
(* Vocabulary of the properties.                                           *)
(***************************************************************************)
Customers == 1..NUM_ORDERS

\* the dictionary and the candidate list exist
Started == pc \in {"merge", "done"}

\* the for loop has processed every candidate
LoopExhausted == Started /\ k > Len(savings)

\* the run is over
Finished == pc = "done"

\* the route set: the distinct route objects reachable through `routes`
RouteSet == dedup_routes(routes, heap)

Occurrences(c, route) == Cardinality({p \in 1..Len(route) : route[p] = c})

Load(route) == Len(route) - 2

\* every customer is on exactly one route of rs, exactly once
IsPartition(rs) ==
  \A c \in Customers :
    /\ Cardinality({x \in 1..Len(rs) : Occurrences(c, rs[x]) > 0}) = 1
    /\ \A x \in 1..Len(rs) : Occurrences(c, rs[x]) <= 1

\* [0, c1, ..., ck, 0] with k >= 1 and no inner 0
DepotBounded(route) ==
  /\ Len(route) >= 3
  /\ route[1] = depot_idx
  /\ route[Len(route)] = depot_idx
  /\ \A p \in 2..(Len(route) - 1) : route[p] # depot_idx

\* the cost of the NUM_ORDERS round trips [0, i, 0]
RECURSIVE SingletonCost(_, _)
SingletonCost(m, n) ==
  IF n = 0 THEN 0 ELSE m[depot_idx][n] + m[n][depot_idx] + SingletonCost(m, n - 1)

SeqRange(s) == {s[x] : x \in 1..Len(s)}

(***************************************************************************)
(* C1  Partition completeness: once the loop has processed all candidates, *)
(* every customer 1..N is on exactly one route of the route set, exactly   *)
(* once; the same holds of every route set that is reported.               *)
(***************************************************************************)
PartitionCompleteness ==
  /\ LoopExhausted => IsPartition(RouteSet)
  /\ (LoopExhausted /\ reports > 0) => IsPartition(final_routes)

\* a finished run of final_baseline_solver.py that merged into a route of
\* three or more customers
PartitionWitness ==
  /\ impl = "final" /\ Finished /\ merges >= 2
  /\ \E x \in 1..Len(final_routes) : Load(final_routes[x]) >= 3

(***************************************************************************)
(* C2  Capacity invariant: every route of the route set has load <= Q, for *)
(* every capacity the program accepts.  The program validates nothing, so  *)
(* it accepts Q <= 0, where every singleton already has load 1 > Q.        *)
(***************************************************************************)
CapacityInvariant ==
  LoopExhausted => \A x \in 1..Len(RouteSet) : Load(RouteSet[x]) <= VEHICLE_CAPACITY

(***************************************************************************)
(* C3  Depot boundary: at every point of the merge loop, after any         *)
(* sequence of accepted merges, every route starts with 0, ends with 0 and *)
(* has no 0 in between; so has every reported route.                       *)
(***************************************************************************)
DepotBoundary ==
  /\ Started => \A x \in 1..Len(RouteSet) : DepotBounded(RouteSet[x])
  /\ \A x \in 1..Len(final_routes) : DepotBounded(final_routes[x])

\* a merge that reversed a route of two or more customers has just happened
DepotBoundaryWitness ==
  /\ impl = "final" /\ last_case \in {2, 3} /\ merges >= 2
  /\ \E x \in 1..Len(RouteSet) : Load(RouteSet[x]) >= 3

(***************************************************************************)
(* C4  Monotonic non-worsening, as claimed: for every non-negative matrix, *)
(* symmetric or not, the reported total cost is at most the cost of the N  *)
(* singleton routes.                                                       *)
(***************************************************************************)
MonotonicNonWorsening ==
  reports > 0 => total_time <= SingletonCost(time_matrix, NUM_ORDERS)

(***************************************************************************)
(* C4 amended: for every symmetric non-negative matrix the reported total  *)
(* cost is at most the cost of the N singleton routes.                     *)
(***************************************************************************)
MonotonicNonWorseningSymmetric ==
  (Symmetric(time_matrix, NUM_ORDERS) /\ reports > 0)
    => total_time <= SingletonCost(time_matrix, NUM_ORDERS)

\* a finished run on a symmetric matrix whose merges lowered the cost
MonotonicWitness ==
  /\ impl = "final" /\ Finished /\ merges >= 2
  /\ Symmetric(time_matrix, NUM_ORDERS)
  /\ total_time < SingletonCost(time_matrix, NUM_ORDERS)

(***************************************************************************)
(* C6  Scenario A: N = 2, Q = 5, depot legs 10, link 5: the run ends with  *)
(* the one route [0,1,2,0] or [0,2,1,0] of total cost 25.                  *)
(***************************************************************************)
ScenarioCosts ==
  /\ NUM_ORDERS = 2
  /\ time_matrix[0][1] = 10 /\ time_matrix[1][0] = 10
  /\ time_matrix[0][2] = 10 /\ time_matrix[2][0] = 10
  /\ time_matrix[1][2] = 5 /\ time_matrix[2][1] = 5

ScenarioA ==
  (ScenarioCosts /\ VEHICLE_CAPACITY = 5 /\ Finished)
    => /\ final_routes \in {<< <<0, 1, 2, 0>> >>, << <<0, 2, 1, 0>> >>}
       /\ total_time = 25
       /\ SingletonCost(time_matrix, NUM_ORDERS) = 40

\* C6 on final_baseline_solver.py alone (also the code of run_project_2.py)
ScenarioAFinal == impl = "final" => ScenarioA

(***************************************************************************)
(* C7  Scenario B: N = 2, Q = 1, the costs of Scenario A: the only         *)
(* candidate (15,1,2) is not merged and the run ends with the two          *)
(* singleton routes [0,1,0] and [0,2,0], total cost 40.                    *)
(***************************************************************************)
ScenarioB ==
  (ScenarioCosts /\ VEHICLE_CAPACITY = 1 /\ Started)
    => /\ savings = << <<15, 1, 2>> >>
       /\ merges = 0
       /\ SeqRange(RouteSet) = {<<0, 1, 0>>, <<0, 2, 0>>}
       /\ Finished => /\ Len(final_routes) = 2
                      /\ SeqRange(final_routes) = {<<0, 1, 0>>, <<0, 2, 0>>}
                      /\ total_time = 40

\* final_baseline_solver.py has examined the candidate and reported
ScenarioBWitness ==
  /\ impl = "final" /\ ScenarioCosts /\ VEHICLE_CAPACITY = 1
  /\ Finished /\ k = 2 /\ reports = 1

(***************************************************************************)
(* C8  Scenario C: N = 3, Q = 2, a symmetric matrix in which exactly two   *)
(* of the three pairs have a positive saving: final_baseline_solver.py     *)
(* ends with two routes, one holding the two customers of a pair of        *)
(* highest saving and one singleton, every customer present exactly once.  *)
(***************************************************************************)
PositivePairs ==
  {p \in Customers \X Customers :
     p[1] < p[2] /\ saving_value(time_matrix, p[1], p[2]) > 0}

ScenarioCInput ==
  /\ NUM_ORDERS = 3 /\ VEHICLE_CAPACITY = 2
  /\ Symmetric(time_matrix, NUM_ORDERS)
  /\ Cardinality(PositivePairs) = 2

ScenarioC ==
  (impl = "final" /\ ScenarioCInput /\ Finished)
    => /\ Len(final_routes) = 2
       /\ IsPartition(final_routes)
       /\ \E x, y \in 1..2 :
            /\ Load(final_routes[x]) = 2 /\ Load(final_routes[y]) = 1
            /\ \A p \in PositivePairs :
                 saving_value(time_matrix, final_routes[x][2], final_routes[x][3])
                   >= saving_value(time_matrix, p[1], p[2])

\* Scenario C with two different positive savings, the higher one appended later
ScenarioCWitness ==
  /\ impl = "final" /\ ScenarioCInput /\ Finished
  /\ saving_value(time_matrix, 1, 2) = 1
  /\ saving_value(time_matrix, 1, 3) = 15

(***************************************************************************)
(* C9  Savings computation: for every pair A < B of customers the list     *)
(* holds exactly one record (value, A, B), value = cost[0][A] + cost[0][B] *)
(* - cost[A][B] (final_baseline_solver.py may omit a pair whose value is   *)
(* not positive, and only such a pair); no record has A >= B or names the  *)
(* depot; the cost matrix is never changed.                                *)
(***************************************************************************)
RecordsOf(A, B) == {x \in 1..Len(savings) : savings[x][2] = A /\ savings[x][3] = B}

SavingsRecords ==
  Started =>
    /\ \A x \in 1..Len(savings) :
         /\ savings[x][2] \in Customers /\ savings[x][3] \in Customers
         /\ savings[x][2] < savings[x][3]
         /\ savings[x][1] = time_matrix[0][savings[x][2]] + time_matrix[0][savings[x][3]]
                              - time_matrix[savings[x][2]][savings[x][3]]
    /\ \A A \in Customers : \A B \in Customers :
         A < B =>
           \/ Cardinality(RecordsOf(A, B)) = 1
           \/ /\ RecordsOf(A, B) = {}
              /\ impl = "final"
              /\ time_matrix[0][A] + time_matrix[0][B] - time_matrix[A][B] <= 0

SavingsComputation == []SavingsRecords /\ [][time_matrix' = time_matrix]_vars

\* final_baseline_solver.py computed a list that keeps some pairs and omits
\* others, from depot legs that differ
SavingsWitness ==
  /\ impl = "final" /\ Started /\ NUM_ORDERS >= 3
  /\ Len(savings) >= 2
  /\ \E A, B \in Customers : A < B /\ RecordsOf(A, B) = {}
  /\ \E A, B \in Customers : time_matrix[0][A] # time_matrix[0][B]

(***************************************************************************)
(* C10  Candidate ordering: the list handed to the merge loop is sorted by *)
(* value, descending, records of equal value by ascending (A, B); the loop *)
(* walks it once, front to back: each step examines the next record and    *)
(* the list is not changed meanwhile.                                      *)
(***************************************************************************)
Before(r1, r2) ==
  \/ r1[1] > r2[1]
  \/ /\ r1[1] = r2[1]
     /\ \/ r1[2] < r2[2]
        \/ r1[2] = r2[2] /\ r1[3] < r2[3]

SavingsOrdered ==
  Started =>
    /\ \A x \in 1..Len(savings) : \A y \in 1..Len(savings) :
         x < y => Before(savings[x], savings[y])
    /\ k \in 1..(Len(savings) + 1)
    /\ Finished => k = Len(savings) + 1

OneCandidatePerStep ==
  Started => /\ savings' = savings
             /\ k' \in {k, k + 1}
             /\ k' = k + 1 => k <= Len(savings)
             /\ (heap' # heap \/ routes' # routes) => k' = k + 1

CandidateOrdering == []SavingsOrdered /\ [][OneCandidatePerStep]_vars

\* the loop has walked a list that holds records of equal value and records
\* of different values
CandidateOrderingWitness ==
  /\ impl = "final" /\ Finished /\ Len(savings) >= 4
  /\ \E x, y \in 1..Len(savings) : x < y /\ savings[x][1] = savings[y][1]
  /\ \E x, y \in 1..Len(savings) : savings[x][1] > savings[y][1]

(***************************************************************************)
(* C11  Malformed input rejection: when Q <= 0 the program stops before    *)
(* any merge attempt: no candidate is processed, no route is merged and no *)
(* route set is reported.  (A non-square matrix or a negative dimension is *)
(* not an input of this model; Q <= 0 is.)                                 *)
(***************************************************************************)
MalformedInputRejected ==
  VEHICLE_CAPACITY <= 0 => /\ k <= 1
                           /\ merges = 0
                           /\ reports = 0
                           /\ final_routes = <<>>

(***************************************************************************)
(* C12  Capacity below one: when Q < 1 (Q = 0 and negative Q included) no  *)
(* candidate is ever merged, the route set is at every moment the N        *)
(* singletons [0,i,0], i in 1..N, and that is what the run ends with and   *)
(* reports.                                                                *)
(***************************************************************************)
Singletons == [i \in 1..NUM_ORDERS |-> <<depot_idx, i, depot_idx>>]

CapacityBelowOne ==
  (VEHICLE_CAPACITY < 1 /\ Started)
    => /\ merges = 0
       /\ RouteSet = Singletons
       /\ reports > 0 => final_routes = Singletons
       /\ (impl = "final" /\ Finished) => reports = 1

\* final_baseline_solver.py has examined several candidates with Q < 1 and
\* reported
CapacityBelowOneWitness ==
  /\ impl = "final" /\ VEHICLE_CAPACITY < 1 /\ Finished
  /\ NUM_ORDERS >= 3 /\ Len(savings) >= 2 /\ k = Len(savings) + 1
  /\ Len(final_routes) = NUM_ORDERS

(***************************************************************************)
(* C13  Unreachable pairs are never force-merged: the candidate (A,B) that *)
(* the loop has just merged never has the sentinel 999999 as its direct    *)
(* cost cost[A][B], whatever cost[0][A] and cost[0][B] are.                *)
(***************************************************************************)
\* the candidate examined by the latest step of the loop
LastCandidate == savings[k - 1]

\* the latest step of the loop merged its candidate
LastMerged == Started /\ k >= 2 /\ last_case # 0

SentinelPairNeverMerged ==
  LastMerged => time_matrix[LastCandidate[2]][LastCandidate[3]] # penalty_value

(***************************************************************************)
(* C14  Finalization ordering: the route set is built and reported exactly *)
(* once per run, only after every candidate has been processed (also when  *)
(* there is no candidate at all), and it is the sequence of distinct route *)
(* objects reachable through the dictionary at that moment.                *)
(***************************************************************************)
FinalizationOrdering ==
  /\ reports <= 1
  /\ reports > 0 => LoopExhausted /\ final_routes = RouteSet
  /\ Finished => reports = 1

\* C14 on final_baseline_solver.py alone
FinalizationOrderingFinal == impl = "final" => FinalizationOrdering

(***************************************************************************)
(* C15  Owner consistency at every step: for every customer c the route    *)
(* routes[c] contains c exactly once, and every customer d on that route   *)
(* has routes[d] the very same object; a step that merges leaves no entry  *)
(* of the dictionary on either of the two routes it merged.                *)
(***************************************************************************)
OwnerConsistent ==
  Started =>
    \A c \in Customers :
      /\ routes[c] \in 1..Len(heap)
      /\ Occurrences(c, heap[routes[c]]) = 1
      /\ \A d \in Customers :
           InList(d, heap[routes[c]]) => routes[d] = routes[c]

NoStaleReference ==
  (pc = "merge" /\ merges' # merges)
    => \A c \in Customers :
         /\ routes'[c] # routes[savings[k][2]]
         /\ routes'[c] # routes[savings[k][3]]

OwnerConsistency == []OwnerConsistent /\ [][NoStaleReference]_vars

\* a merge has just replaced a route of two or more customers, whose inner
\* customers had to be moved to the new object too
OwnerConsistencyWitness ==
  /\ impl = "final" /\ pc = "merge" /\ LastMerged /\ merges >= 2
  /\ Load(heap[Len(heap)]) >= 3
  /\ \A c \in Customers : InList(c, heap[Len(heap)]) => routes[c] = Len(heap)

(***************************************************************************)
(* C16  Route lookup: in every state of the merge loop and for every       *)
(* customer c in 1..N, find_route(c) is the live route that contains c:    *)
(* never None, never a route without c.                                    *)
(***************************************************************************)
\* find_route of the implementation that is running
Lookup(c) ==
  IF impl = "final" THEN find_route_final(c, routes)
  ELSE find_route_baseline(c, routes, heap)

RouteLookup ==
  pc = "merge" =>
    \A c \in Customers :
      /\ Lookup(c) # None
      /\ InList(c, heap[Lookup(c)])
      /\ Lookup(c) = routes[c]

\* C16 on final_baseline_solver.py alone (also the code of run_project_2.py)
RouteLookupFinal == impl = "final" => RouteLookup

(***************************************************************************)
(* C17  Merge guard: a step of the loop merges its candidate (value, A, B) *)
(* only if, in the state in which it examines it, A and B are on different *)
(* route objects, loadA + loadB <= Q, and each of A and B is the first or  *)
(* the last customer of its route; a customer in the interior of a route   *)
(* is never the splice point.                                              *)
(***************************************************************************)
\* c is the first or the last customer of route (next to a depot entry)
IsEndpoint(c, route) == route[2] = c \/ route[Len(route) - 1] = c

\* this step of the loop merges the candidate savings[k]
MergeStep == pc = "merge" /\ k <= Len(savings) /\ merges' # merges

MergeGuardStep ==
  MergeStep =>
    LET A == savings[k][2]
        B == savings[k][3]
    IN  /\ routes[A] # routes[B]
        /\ Load(heap[routes[A]]) + Load(heap[routes[B]]) <= VEHICLE_CAPACITY
        /\ IsEndpoint(A, heap[routes[A]])
        /\ IsEndpoint(B, heap[routes[B]])

MergeGuardFinal == [][impl = "final" => MergeGuardStep]_vars

(***************************************************************************)
(* C18  Skip leaves state unchanged: a step of the loop that examines a    *)
(* candidate and does not merge it (same route, capacity exceeded, or A or *)
(* B not at an endpoint) leaves the dictionary and the node sequence of    *)
(* every route object, orientation included, exactly as they were.         *)
(***************************************************************************)
\* this step of the loop examines the candidate savings[k] and does not merge
SkipStep == pc = "merge" /\ k <= Len(savings) /\ k' = k + 1 /\ merges' = merges

SkipKeepsState == SkipStep => routes' = routes /\ heap' = heap

SkipLeavesStateUnchanged == [][SkipKeepsState]_vars

\* the latest candidate joined two different routes, one of them of two or
\* more customers, and was refused
SkipWitness ==
  /\ impl = "final" /\ pc = "merge" /\ k >= 2 /\ last_case = 0
  /\ merges >= 1
  /\ routes[LastCandidate[2]] # routes[LastCandidate[3]]
  /\ Load(heap[routes[LastCandidate[2]]]) >= 2

(***************************************************************************)
(* C19  All four endpoint orientations are handled: whenever the loop      *)
(* examines a candidate (value, A, B) with A and B on different routes,    *)
(* loadA + loadB <= Q, A the first or last customer of its route and B the *)
(* first or last customer of its route, the step merges the two routes,    *)
(* whatever their lengths.                                                 *)
(***************************************************************************)
\* the candidate savings[k] about to be examined meets the merge conditions
Mergeable ==
  /\ pc = "merge" /\ k <= Len(savings)
  /\ LET A == savings[k][2]
         B == savings[k][3]
     IN  /\ routes[A] # routes[B]
         /\ Load(heap[routes[A]]) + Load(heap[routes[B]]) <= VEHICLE_CAPACITY
         /\ IsEndpoint(A, heap[routes[A]])
         /\ IsEndpoint(B, heap[routes[B]])

MergeablePairMerged ==
  (Mergeable /\ k' = k + 1)
    => /\ merges' = merges + 1
       /\ routes'[savings[k][2]] = routes'[savings[k][3]]

AllOrientationsHandled == [][MergeablePairMerged]_vars

\* C19 on final_baseline_solver.py alone
AllOrientationsHandledFinal == [][impl = "final" => MergeablePairMerged]_vars

(***************************************************************************)
(* C20  Tail-to-tail splice: when a candidate (value, A, B) is merged with *)
(* A the last customer of routeA and B the last customer of routeB, and    *)
(* neither the tail-to-head nor the head-to-head configuration applies,    *)
(* the merged route is routeA without its trailing depot followed by the   *)
(* reversed routeB without its leading depot: [0, ..., A, B, ..., 0].      *)
(***************************************************************************)
IsHead(c, route) == route[2] = c

IsTail(c, route) == route[Len(route) - 1] = c

\* the configuration of the third case and of no earlier one
TailToTail(A, routeA, B, routeB) ==
  /\ IsTail(A, routeA) /\ IsTail(B, routeB)
  /\ ~(IsTail(A, routeA) /\ IsHead(B, routeB))
  /\ ~(IsHead(A, routeA) /\ IsHead(B, routeB))

TailToTailStep ==
  LET A == savings[k][2]
      B == savings[k][3]
  IN  (MergeStep /\ TailToTail(A, heap[routes[A]], B, heap[routes[B]]))
        => /\ routes'[A] = routes'[B]
           /\ heap'[routes'[A]] =
                DropLast(heap[routes[A]]) \o DropFirst(Reversed(heap[routes[B]]))

TailToTailSpliceFinal == [][impl = "final" => TailToTailStep]_vars

(***************************************************************************)
(* C21  The two implementations agree: on the same cost matrix, N and Q,   *)
(* the routes one implementation ends its merge loop with have the same    *)
(* customer groupings and the same node sequences as the routes the other  *)
(* implementation ends with on that input.                                 *)
(***************************************************************************)
\* the customers of a route
CustomersOf(route) == {route[p] : p \in 2..(Len(route) - 1)}

\* the grouping of the customers that a sequence of routes stands for
Groupings(rs) == {CustomersOf(rs[x]) : x \in 1..Len(rs)}

\* what the implementation that is not running ends with on this input
OtherOutcome ==
  IF impl = "final"
    THEN routes_of_baseline(time_matrix, NUM_ORDERS, VEHICLE_CAPACITY)
    ELSE routes_of_final(time_matrix, NUM_ORDERS, VEHICLE_CAPACITY)

ImplementationsAgree ==
  LoopExhausted => /\ Groupings(RouteSet) = Groupings(OtherOutcome)
                   /\ SeqRange(RouteSet) = SeqRange(OtherOutcome)

(***************************************************************************)
(* C22  Merged pair becomes adjacent: after every accepted merge for a     *)
(* candidate (value, A, B), A and B are consecutive nodes, in one order or *)
(* the other, of the merged route, and the merged route holds exactly the  *)
(* customers of the two routes it replaces, each once.                     *)
(***************************************************************************)
\* a and b are consecutive nodes of route, in one order or the other
Adjacent(a, b, route) ==
  \E p \in 1..(Len(route) - 1) : {route[p], route[p + 1]} = {a, b}

MergedPairAdjacentStep ==
  MergeStep =>
    LET A == savings[k][2]
        B == savings[k][3]
        merged == heap'[routes'[A]]
    IN  /\ routes'[A] = routes'[B]
        /\ Adjacent(A, B, merged)
        /\ CustomersOf(merged)
             = CustomersOf(heap[routes[A]]) \cup CustomersOf(heap[routes[B]])
        /\ Load(merged) = Load(heap[routes[A]]) + Load(heap[routes[B]])
        /\ \A c \in CustomersOf(merged) : Occurrences(c, merged) = 1

MergedPairAdjacentFinal == [][impl = "final" => MergedPairAdjacentStep]_vars

(***************************************************************************)
(* C23  Adjacency is permanent: two customers that are consecutive in a    *)
(* route are consecutive, in one order or the other, in every later state  *)
(* of the merge loop; two customers that share a route never come to lie   *)
(* on different routes; a customer that is interior never becomes an       *)
(* endpoint again.                                                         *)
(***************************************************************************)
\* the live route of customer c
RouteOfCustomer(c) == heap[routes[c]]

\* c is neither the first nor the last customer of its route
Interior(c) == ~IsEndpoint(c, RouteOfCustomer(c))

AdjacencyKept ==
  Started =>
    \A a \in Customers : \A b \in Customers :
      /\ (a # b /\ routes[a] = routes[b])
           => /\ routes'[a] = routes'[b]
              /\ Adjacent(a, b, RouteOfCustomer(a))
                   => Adjacent(a, b, heap'[routes'[a]])
      /\ Interior(a) => ~IsEndpoint(a, heap'[routes'[a]])

AdjacencyPermanent == [][AdjacencyKept]_vars

\* a route of three customers, one of them interior, has been reversed and
\* merged with a fourth customer
AdjacencyWitness ==
  /\ impl = "final" /\ pc = "merge" /\ LastMerged /\ last_case \in {2, 3}
  /\ Load(heap[Len(heap)]) >= 4
  /\ \E c \in Customers : Interior(c) /\ c # heap[Len(heap)][3]

(***************************************************************************)
(* C24  Route count accounting: in every state of the merge loop the       *)
(* number of distinct live route objects is N minus the number of merges   *)
(* accepted so far; a step accepts at most one merge, so the number never  *)
(* increases and drops by exactly one at each accepted merge; at most      *)
(* N - 1 merges are ever accepted; the reported route set has that many    *)
(* routes.                                                                 *)
(***************************************************************************)
RouteCount ==
  Started =>
    /\ Len(RouteSet) = NUM_ORDERS - merges
    /\ merges <= NUM_ORDERS - 1
    /\ (impl = "final" /\ Finished) => Len(final_routes) = NUM_ORDERS - merges

OneMergePerStep ==
  /\ merges' \in {merges, merges + 1}
  /\ Started => /\ Len(dedup_routes(routes', heap')) <= Len(RouteSet)
                /\ merges' # merges
                     => Len(dedup_routes(routes', heap')) = Len(RouteSet) - 1

RouteCountAccounting == []RouteCount /\ [][OneMergePerStep]_vars

\* final_baseline_solver.py has merged all four customers into one route,
\* after refusing some candidates, and reported it
RouteCountWitness ==
  /\ impl = "final" /\ Finished /\ NUM_ORDERS = 4
  /\ merges = NUM_ORDERS - 1 /\ k - 1 > merges
  /\ Len(final_routes) = 1

(***************************************************************************)
(* C25  Greedy maximality at termination: in final_baseline_solver.py a    *)
(* candidate that has been examined is infeasible in every later state     *)
(* (its customers share a route, or one of them is not at an endpoint, or  *)
(* the combined load exceeds Q), so when the loop has finished no record   *)
(* (value, A, B) of the savings list has A and B on different routes, both *)
(* at endpoints, with combined load <= Q.                                  *)
(***************************************************************************)
\* the record could be merged in the current state
Feasible(rec) ==
  LET A == rec[2]
      B == rec[3]
  IN  /\ routes[A] # routes[B]
      /\ IsEndpoint(A, RouteOfCustomer(A))
      /\ IsEndpoint(B, RouteOfCustomer(B))
      /\ Load(RouteOfCustomer(A)) + Load(RouteOfCustomer(B)) <= VEHICLE_CAPACITY

GreedyMaximality ==
  (impl = "final" /\ Started)
    => /\ \A x \in 1..(k - 1) : ~Feasible(savings[x])
       /\ LoopExhausted => \A x \in 1..Len(savings) : ~Feasible(savings[x])

\* the loop has finished with several routes after merging and after
\* refusing a candidate whose customers are still on different routes
GreedyMaximalityWitness ==
  /\ impl = "final" /\ Finished /\ merges >= 1 /\ Len(final_routes) >= 2
  /\ VEHICLE_CAPACITY >= 3
  /\ \E x \in 1..Len(savings) : routes[savings[x][2]] # routes[savings[x][3]]

(***************************************************************************)
(* C26  Cost accounting for symmetric matrices: when cost[a][b] =          *)
(* cost[b][a] for all nodes, every accepted merge for a candidate          *)
(* (value, A, B) lowers the total cost of the live routes by exactly       *)
(* value and a refused candidate leaves it as it is, so the total cost is  *)
(* at every moment, and in the report, the sum over the customers i of     *)
(* 2*cost[0][i] minus the sum of the values of the accepted candidates.    *)
(***************************************************************************)
\* the sum over the customers 1..n of 2 * cost[0][i]
RECURSIVE TwiceDepotLegs(_, _)
TwiceDepotLegs(m, n) ==
  IF n = 0 THEN 0 ELSE 2 * m[depot_idx][n] + TwiceDepotLegs(m, n - 1)

\* the total cost of the live routes
LiveCost == sum_route_times(time_matrix, RouteSet)

CostAccounted ==
  (Symmetric(time_matrix, NUM_ORDERS) /\ Started)
    => /\ LiveCost = TwiceDepotLegs(time_matrix, NUM_ORDERS) - saved
       /\ reports > 0
            => total_time = TwiceDepotLegs(time_matrix, NUM_ORDERS) - saved

MergeLowersCost ==
  (Symmetric(time_matrix, NUM_ORDERS) /\ pc = "merge" /\ k' = k + 1)
    => sum_route_times(time_matrix, dedup_routes(routes', heap'))
         = IF merges' # merges THEN LiveCost - savings[k][1] ELSE LiveCost

CostAccounting == []CostAccounted /\ [][MergeLowersCost]_vars

\* final_baseline_solver.py has reported, on a symmetric matrix, routes
\* built by merges of different values, one of them with a reversal
CostAccountingWitness ==
  /\ impl = "final" /\ Finished /\ Symmetric(time_matrix, NUM_ORDERS)
  /\ merges >= 2 /\ saved > 2 * merges
  /\ last_case \in {2, 3, 4}
  /\ total_time = TwiceDepotLegs(time_matrix, NUM_ORDERS) - saved

====
